---------------------------- MODULE Spec2Model ----------------------------
(***************************************************************************)
(* Model of the filterexpression package: the lexer rules and the grammar  *)
(* of filterexpression.go as interpreted by the parser generator, the      *)
(* Parse entry point, and the visitor engine of visitor.go.                *)
(*                                                                         *)
(* An expression is a sequence of one-character strings.  Token values are *)
(* TLA+ strings, so that the grammar's literals read as in the struct tags.*)
(***************************************************************************)
EXTENDS Naturals, Sequences, FiniteSets, TLC

VARIABLES expression, pc, origin, ast, perr, visitor, trace, verr

vars == <<expression, pc, origin, ast, perr, visitor, trace, verr>>

\* The absent value: a nil pointer, a nil error.
Nil == [nil |-> TRUE]

-----------------------------------------------------------------------------
(* Lexer: filterexpression.go, var Lexer.                                  *)

Letters ==
    {"a","b","c","d","e","f","g","h","i","j","k","l","m","n","o","p","q","r",
     "s","t","u","v","w","x","y","z",
     "A","B","C","D","E","F","G","H","I","J","K","L","M","N","O","P","Q","R",
     "S","T","U","V","W","X","Y","Z"}

Digits == {"0","1","2","3","4","5","6","7","8","9"}

\* [a-zA-Z0-9_], which is also the class \b tests.
WordChars == Letters \cup Digits \cup {"_"}

Quotes == {"'", "\""}

\* [ \t\n\r]
WhitespaceChars == {" ", "\t", "\n", "\r"}

\* [=\:.<>=(),-]
OperatorChars == {"=", ":", ".", "<", ">", "(", ")", ",", "-"}

KeywordWords == <<<<"A","N","D">>, <<"O","R">>, <<"N","O","T">>>>

RECURSIVE Str(_)
Str(s) == IF s = <<>> THEN "" ELSE Head(s) \o Str(Tail(s))

\* Length of the longest run of characters of class cls in s from index i.
RECURSIVE RunLen(_, _, _)
RunLen(s, i, cls) ==
    IF i <= Len(s) /\ s[i] \in cls THEN 1 + RunLen(s, i + 1, cls) ELSE 0

HasPrefix(s, i, w) ==
    /\ i + Len(w) - 1 <= Len(s)
    /\ \A k \in 1..Len(w) : s[i + k - 1] = w[k]

\* Text: [a-zA-Z0-9_]+
TextMatch(s, i) == RunLen(s, i, WordChars)

\* String: ['"]\*?(\\'|\\"|[^"'])*\*?['"]
\* The body passes over a quote only as the second character of \' or \",
\* and the greedy repetition prefers the longest such reading: the match
\* ends at the first quote that no backslash precedes, or, when every
\* later quote follows a backslash, at the last of them.
StringMatch(s, i) ==
    IF ~(i <= Len(s) /\ s[i] \in Quotes) THEN 0
    ELSE LET qs == {q \in (i + 1)..Len(s) : s[q] \in Quotes}
             escaped(q) == q - 1 > i /\ s[q - 1] = "\\"
             plain == {q \in qs : ~escaped(q)}
             end == IF qs = {} THEN 0
                    ELSE IF plain # {}
                         THEN CHOOSE q \in plain : \A r \in plain : q <= r
                         ELSE CHOOSE q \in qs : \A r \in qs : q >= r
         IN IF end = 0 THEN 0 ELSE end - i + 1

\* Keyword: \b(AND|OR|NOT)\b
KeywordMatch(s, i) ==
    LET hits == {k \in 1..Len(KeywordWords) :
                    /\ HasPrefix(s, i, KeywordWords[k])
                    /\ LET j == i + Len(KeywordWords[k])
                       IN j > Len(s) \/ s[j] \notin WordChars}
    IN IF hits = {} THEN 0
       ELSE Len(KeywordWords[CHOOSE k \in hits : \A h \in hits : k <= h])

\* Whitespace: [ \t\n\r]+
WhitespaceMatch(s, i) == RunLen(s, i, WhitespaceChars)

\* Operators: <=|>=|!=|[=\:.<>=(),-]
OperatorsMatch(s, i) ==
    IF HasPrefix(s, i, <<"<", "=">>) \/ HasPrefix(s, i, <<">", "=">>)
       \/ HasPrefix(s, i, <<"!", "=">>) THEN 2
    ELSE IF i <= Len(s) /\ s[i] \in OperatorChars THEN 1
    ELSE 0

\* The rules in the order the source lists them.
LexerRules == <<"Text", "String", "Keyword", "Whitespace", "Operators">>

RuleMatch(rule, s, i) ==
    CASE rule = "Text" -> TextMatch(s, i)
      [] rule = "String" -> StringMatch(s, i)
      [] rule = "Keyword" -> KeywordMatch(s, i)
      [] rule = "Whitespace" -> WhitespaceMatch(s, i)
      [] rule = "Operators" -> OperatorsMatch(s, i)

\* The rule that produces the token at offset i: the first rule of the list
\* whose pattern matches there; 0 when none does.
FirstRuleOrder(s, i) ==
    LET hits == {r \in 1..Len(LexerRules) : RuleMatch(LexerRules[r], s, i) > 0}
    IN IF hits = {} THEN 0 ELSE CHOOSE r \in hits : \A h \in hits : r <= h

SelectRule(s, i) == FirstRuleOrder(s, i)

EOFToken(i) == [type |-> "EOF", value |-> "", pos |-> i]

\* The token stream of s from offset i, EOF last; a lexer error ends it.
RECURSIVE LexFrom(_, _)
LexFrom(s, i) ==
    IF i > Len(s) THEN [err |-> Nil, toks |-> <<EOFToken(i)>>]
    ELSE LET r == SelectRule(s, i)
         IN IF r = 0
            THEN [err |-> [kind |-> "LexError", pos |-> i], toks |-> <<>>]
            ELSE LET n == RuleMatch(LexerRules[r], s, i)
                     tok == [type |-> LexerRules[r],
                             value |-> Str(SubSeq(s, i, i + n - 1)),
                             pos |-> i]
                     rest == LexFrom(s, i + n)
                 IN [err |-> rest.err, toks |-> <<tok>> \o rest.toks]

Lex(s) == LexFrom(s, 1)

-----------------------------------------------------------------------------
(* Parser: the struct tags of filterexpression.go, var DefaultParser and   *)
(* func Parse.  The tags of a struct's fields, joined in order, are its    *)
(* expression.  The generated parser reads the raw token stream, skipping  *)
(* elided tokens, and tries each alternative and each repetition on a      *)
(* branch that is dropped when it fails, unless the branch ran further     *)
(* than the lookahead allows.  What a struct parses to from a cursor       *)
(* depends on the tokens and the cursor alone, so the model tabulates it:  *)
(* one row per cursor, the rows of the later cursors first.                *)

\* type Comparator int; const ( CompLessEquals Comparator = iota ... )
CompLessEquals == 0
CompLessThan == 1
CompGreaterEquals == 2
CompGreaterThan == 3
CompNotEquals == 4
CompEquals == 5
CompHas == 6

comparatorMap ==
    [s \in {"<=", "<", ">=", ">", "!=", "=", ":"} |->
        CASE s = "<=" -> CompLessEquals
          [] s = "<" -> CompLessThan
          [] s = ">=" -> CompGreaterEquals
          [] s = ">" -> CompGreaterThan
          [] s = "!=" -> CompNotEquals
          [] s = "=" -> CompEquals
          [] s = ":" -> CompHas]

\* func (c *Comparator) Capture(s []string) error
Capture(s) == comparatorMap[s[1]]

\* The zero value of each struct.  Nil stands for a field the parser has not
\* populated where the code tells the two apart (the alternatives that
\* visitor.go tests against nil, the optional Arg, the *Value of a Field);
\* a slice is empty, a bool false, a string empty, and a Comparator is the
\* zero of its int type.
RECURSIVE ZeroValue(_)
ZeroValue(name) ==
    [Pos |-> 0] @@
    CASE name = "Filter" -> [Expression |-> <<>>]
      [] name = "Expression" -> [Sequence |-> <<>>]
      [] name = "Sequence" -> [Factor |-> <<>>]
      [] name = "Factor" -> [Term |-> <<>>]
      [] name = "Term" -> [Negate |-> FALSE, Simple |-> ZeroValue("Simple")]
      [] name = "Simple" -> [Restriction |-> Nil, Composite |-> Nil]
      [] name = "Restriction" ->
           [Comparable |-> ZeroValue("Comparable"), Comparator |-> 0, Arg |-> Nil]
      [] name = "Comparable" -> [Function |-> Nil, Member |-> Nil]
      [] name = "Member" -> [Value |-> ZeroValue("Value"), Fields |-> <<>>]
      [] name = "Function" -> [Name |-> <<>>, Args |-> <<>>]
      [] name = "Composite" -> [Expression |-> ZeroValue("Expression")]
      [] name = "Value" -> [Text |-> "", String |-> ""]
      [] name = "Field" -> [Value |-> Nil, Keyword |-> ""]
      [] name = "Arg" -> [Comparable |-> Nil, Composite |-> Nil]
      [] name = "Name" -> [Text |-> "", Keyword |-> ""]

\* participle.Elide("Whitespace")
Elide == {"Whitespace"}

\* participle.UseLookahead(7)
Lookahead == 7

\* The raw index of the next token that is not elided, after raw cursor c.
RECURSIVE PeekIdx(_, _)
PeekIdx(toks, c) ==
    IF toks[c + 1].type \in Elide THEN PeekIdx(toks, c + 1) ELSE c + 1

Peek(toks, c) == toks[PeekIdx(toks, c)]

\* A branch that started at raw cursor c and failed at raw cursor branch
\* ends the parse, instead of being dropped, when it ran further than the
\* lookahead.
StopBeyondLookahead(c, branch) == branch > c + Lookahead

\* A parser that drops every failed branch, however far it ran.
StopNever(c, branch) == FALSE

Stop(c, branch) == StopBeyondLookahead(c, branch)

\* What a node parses to: a match with its value and the cursor after it,
\* no match, or an error with the cursor the failing branch reached.
Ok(v, cur) == [st |-> "ok", v |-> v, cur |-> cur]
No(c) == [st |-> "no", v |-> <<>>, cur |-> c]
Err(cur) == [st |-> "err", v |-> <<>>, cur |-> cur]

\* A quoted literal of a tag, or a choice of them: it matches the next
\* token by its value, whatever the token's type.
Literal(toks, c, lits) ==
    LET j == PeekIdx(toks, c)
    IN IF toks[j].type # "EOF" /\ toks[j].value \in lits
       THEN Ok(toks[j].value, j) ELSE No(c)

\* @Text, @String: it matches the next token by its type.
TokenRef(toks, c, type) ==
    LET j == PeekIdx(toks, c)
    IN IF toks[j].type = type THEN Ok(toks[j].value, j) ELSE No(c)

\* A capture: the match, with the struct the value is captured into.
Into(r, rec) == IF r.st = "ok" THEN Ok(rec, r.cur) ELSE r

\* A sequence of two nodes: after its head matched, the next node must.
Then(head, x) ==
    CASE head.st # "ok" -> head
      [] x.st = "no" -> Err(head.cur)
      [] OTHER -> x

\* A disjunction: the first alternative that matches.  One that fails is
\* dropped and the next is tried from the same cursor, unless Stop.
RECURSIVE DisjunctionFrom(_, _, _, _)
DisjunctionFrom(c, rs, i, failed) ==
    IF i > Len(rs) THEN (IF failed THEN Err(c) ELSE No(c))
    ELSE CASE rs[i].st = "ok" -> rs[i]
           [] rs[i].st = "err" ->
                IF Stop(c, rs[i].cur) THEN rs[i]
                ELSE DisjunctionFrom(c, rs, i + 1, TRUE)
           [] rs[i].st = "no" -> DisjunctionFrom(c, rs, i + 1, failed)

Disjunction(c, rs) == DisjunctionFrom(c, rs, 1, FALSE)

\* ( ... )?: a failed branch is dropped, unless Stop.
Optional(c, iter, none) ==
    CASE iter.st = "ok" -> iter
      [] iter.st = "err" /\ Stop(c, iter.cur) -> Err(iter.cur)
      [] OTHER -> Ok(none, c)

\* ( ... )* from cursor c: iter is one iteration from c and rest the same
\* repetition from the cursor after it.
Loop(c, iter, rest) ==
    CASE iter.st = "ok" ->
           IF rest.st = "err" THEN rest ELSE Ok(<<iter.v>> \o rest.v, rest.cur)
      [] iter.st = "err" /\ Stop(c, iter.cur) -> Err(iter.cur)
      [] OTHER -> Ok(<<>>, c)

\* The row of the later cursor c2, in the rows that follow cursor c.
At(later, c, c2) == later[c2 - c]

\* A struct as the parser allocates it: zero, with Pos injected.
New(name, toks, c) == [ZeroValue(name) EXCEPT !.Pos = Peek(toks, c).pos]

KeywordLits == {"AND", "OR", "NOT"}

\* type Value: Text `@Text` ; String `| @String`
ParseValue(toks, c) ==
    LET text == TokenRef(toks, c, "Text")
        str == TokenRef(toks, c, "String")
    IN Disjunction(c, <<Into(text, [New("Value", toks, c) EXCEPT !.Text = text.v]),
                        Into(str, [New("Value", toks, c) EXCEPT !.String = str.v])>>)

\* type Name: Text `@Text` ; Keyword `| @( "AND" | "OR" | "NOT" )`
ParseName(toks, c) ==
    LET text == TokenRef(toks, c, "Text")
        kw == Literal(toks, c, KeywordLits)
    IN Disjunction(c, <<Into(text, [New("Name", toks, c) EXCEPT !.Text = text.v]),
                        Into(kw, [New("Name", toks, c) EXCEPT !.Keyword = kw.v])>>)

\* type Field: Value `@@` ; Keyword `| @( "AND" | "OR" | "NOT" )`
ParseField(toks, c, value) ==
    LET kw == Literal(toks, c, KeywordLits)
    IN Disjunction(c, <<Into(value, [New("Field", toks, c) EXCEPT !.Value = value.v]),
                        Into(kw, [New("Field", toks, c) EXCEPT !.Keyword = kw.v])>>)

\* ( sep @@ )* from c, @@ being the struct tabulated as field elem and the
\* repetition itself as field tail.
ParseTail(toks, c, later, sep, elem, tail) ==
    LET lit == Literal(toks, c, {sep})
        x == IF lit.st = "ok" THEN At(later, c, lit.cur)[elem] ELSE No(c)
        iter == Then(lit, x)
        rest == IF iter.st = "ok" THEN At(later, c, iter.cur)[tail] ELSE No(c)
    IN Loop(c, iter, rest)

\* type Member: Value `@@` ; Fields `( "." @@ )*`
ParseMember(toks, c, later, value) ==
    IF value.st # "ok" THEN value
    ELSE LET fields == At(later, c, value.cur).FieldsTail
         IN IF fields.st = "err" THEN fields
            ELSE Ok([New("Member", toks, c) EXCEPT
                        !.Value = value.v, !.Fields = fields.v], fields.cur)

\* type Function: Name `@@ ( "." @@ )*` ; Args `"(" ( @@ ( "," @@ )* )? ")"`
ParseFunction(toks, c, later, name) ==
    IF name.st # "ok" THEN name
    ELSE LET names == At(later, c, name.cur).NameTail
         IN IF names.st = "err" THEN names
            ELSE LET open == Literal(toks, names.cur, {"("})
                 IN IF open.st # "ok" THEN Err(names.cur)
                    ELSE LET arg == At(later, c, open.cur).Arg
                             more == IF arg.st = "ok"
                                     THEN At(later, c, arg.cur).ArgsTail ELSE No(c)
                             list == CASE arg.st # "ok" -> arg
                                       [] more.st = "err" -> more
                                       [] OTHER -> Ok(<<arg.v>> \o more.v, more.cur)
                             args == Optional(open.cur, list, <<>>)
                         IN IF args.st = "err" THEN args
                            ELSE LET close == Literal(toks, args.cur, {")"})
                                 IN IF close.st # "ok" THEN Err(args.cur)
                                    ELSE Ok([New("Function", toks, c) EXCEPT
                                                !.Name = <<name.v>> \o names.v,
                                                !.Args = args.v], close.cur)

\* type Comparable: Function `@@` ; Member `| @@`
ParseComparable(toks, c, function, member) ==
    Disjunction(c,
        <<Into(function, [New("Comparable", toks, c) EXCEPT !.Function = function.v]),
          Into(member, [New("Comparable", toks, c) EXCEPT !.Member = member.v])>>)

\* type Composite: Expression `"(" @@ ")"`
ParseComposite(toks, c, later) ==
    LET open == Literal(toks, c, {"("})
        expr == IF open.st = "ok" THEN At(later, c, open.cur).Expression ELSE No(c)
        inner == Then(open, expr)
    IN IF inner.st # "ok" THEN inner
       ELSE LET close == Literal(toks, inner.cur, {")"})
            IN IF close.st # "ok" THEN Err(inner.cur)
               ELSE Ok([New("Composite", toks, c) EXCEPT !.Expression = inner.v],
                       close.cur)

\* type Arg: Comparable `@@` ; Composite `| @@`
ParseArg(toks, c, comparable, composite) ==
    Disjunction(c,
        <<Into(comparable, [New("Arg", toks, c) EXCEPT !.Comparable = comparable.v]),
          Into(composite, [New("Arg", toks, c) EXCEPT !.Composite = composite.v])>>)

ComparatorLits == DOMAIN comparatorMap

\* type Restriction: Comparable `@@` ;
\* Comparator `( @( "<=" | "<" | ">=" | ">" | "!=" | "=" | ":" )` ; Arg ` @@ )?`
ParseRestriction(toks, c, later, comparable) ==
    IF comparable.st # "ok" THEN comparable
    ELSE LET cmp == Literal(toks, comparable.cur, ComparatorLits)
             arg == IF cmp.st = "ok" THEN At(later, c, cmp.cur).Arg ELSE No(c)
             both == Then(cmp, arg)
             opt == Optional(comparable.cur, both, <<>>)
             rec == [New("Restriction", toks, c) EXCEPT !.Comparable = comparable.v]
         IN IF opt.st = "err" THEN opt
            ELSE IF both.st = "ok"
            THEN Ok([rec EXCEPT !.Comparator = Capture(<<cmp.v>>), !.Arg = arg.v],
                    opt.cur)
            ELSE Ok(rec, opt.cur)

\* type Simple: Restriction `@@` ; Composite `| @@`
ParseSimple(toks, c, restriction, composite) ==
    Disjunction(c,
        <<Into(restriction, [New("Simple", toks, c) EXCEPT !.Restriction = restriction.v]),
          Into(composite, [New("Simple", toks, c) EXCEPT !.Composite = composite.v])>>)

\* A Term whose Negate captures "NOT" alone: a "-" is read and not recorded.
ParseTermNotOnly(toks, c, later, simple) ==
    LET neg == Optional(c, Literal(toks, c, {"NOT", "-"}), <<>>)
        s == IF neg.cur > c THEN At(later, c, neg.cur).Simple ELSE simple
    IN CASE s.st = "no" -> Err(neg.cur)
         [] s.st = "err" -> s
         [] s.st = "ok" ->
              Ok([New("Term", toks, c) EXCEPT
                     !.Negate = (neg.cur > c /\ neg.v = "NOT"), !.Simple = s.v],
                 s.cur)

\* type Term: Negate `@( "NOT" | "-" )?` ; Simple `@@`
ParseTerm(toks, c, later, simple) ==
    LET neg == Optional(c, Literal(toks, c, {"NOT", "-"}), <<>>)
        s == IF neg.cur > c THEN At(later, c, neg.cur).Simple ELSE simple
    IN CASE s.st = "no" -> Err(neg.cur)
         [] s.st = "err" -> s
         [] s.st = "ok" ->
              Ok([New("Term", toks, c) EXCEPT !.Negate = (neg.cur > c), !.Simple = s.v],
                 s.cur)

\* type Factor: Term `@@ ( "OR" @@ )*`
ParseFactor(toks, c, later, term) ==
    IF term.st # "ok" THEN term
    ELSE LET terms == At(later, c, term.cur).TermTail
         IN IF terms.st = "err" THEN terms
            ELSE Ok([New("Factor", toks, c) EXCEPT !.Term = <<term.v>> \o terms.v],
                    terms.cur)

\* @@* and the iterations of @@+ from c, @@ being the struct parsed to elem
\* from c and the repetition tabulated as field loop.
ParseLoop(c, later, elem, loop) ==
    Loop(c, elem, IF elem.st = "ok" THEN At(later, c, elem.cur)[loop] ELSE No(c))

\* type Sequence: Factor `@@+`
ParseSequence(toks, c, factors) ==
    CASE factors.st = "err" -> factors
      [] factors.v = <<>> -> Err(c)
      [] OTHER -> Ok([New("Sequence", toks, c) EXCEPT !.Factor = factors.v], factors.cur)

\* type Expression: Sequence `@@ ( "AND" @@ )*`
ParseExpression(toks, c, later, sequence) ==
    IF sequence.st # "ok" THEN sequence
    ELSE LET seqs == At(later, c, sequence.cur).SequenceTail
         IN IF seqs.st = "err" THEN seqs
            ELSE Ok([New("Expression", toks, c) EXCEPT
                        !.Sequence = <<sequence.v>> \o seqs.v], seqs.cur)

\* A Filter of `@@+`: at least one Expression.
ParseFilterAtLeastOne(toks, c, expressions) ==
    IF expressions.st = "err" THEN expressions
    ELSE IF expressions.v = <<>> THEN Err(c)
    ELSE Ok([New("Filter", toks, c) EXCEPT !.Expression = expressions.v],
            expressions.cur)

\* type Filter: Expression `@@*`
ParseFilter(toks, c, expressions) ==
    IF expressions.st = "err" THEN expressions
    ELSE Ok([New("Filter", toks, c) EXCEPT !.Expression = expressions.v],
            expressions.cur)

\* What every struct, and every repetition of a tag, parses to from cursor
\* c, given the rows of the cursors after c.
Row(toks, c, later) ==
    LET rValue == ParseValue(toks, c)
        rName == ParseName(toks, c)
        rField == ParseField(toks, c, rValue)
        rMember == ParseMember(toks, c, later, rValue)
        rFunction == ParseFunction(toks, c, later, rName)
        rComparable == ParseComparable(toks, c, rFunction, rMember)
        rComposite == ParseComposite(toks, c, later)
        rArg == ParseArg(toks, c, rComparable, rComposite)
        rRestriction == ParseRestriction(toks, c, later, rComparable)
        rSimple == ParseSimple(toks, c, rRestriction, rComposite)
        rTerm == ParseTerm(toks, c, later, rSimple)
        rFactor == ParseFactor(toks, c, later, rTerm)
        rFactors == ParseLoop(c, later, rFactor, "FactorLoop")
        rSequence == ParseSequence(toks, c, rFactors)
        rExpression == ParseExpression(toks, c, later, rSequence)
        rExpressions == ParseLoop(c, later, rExpression, "ExpressionLoop")
    IN [Value |-> rValue, Name |-> rName, Field |-> rField,
        NameTail |-> ParseTail(toks, c, later, ".", "Name", "NameTail"),
        FieldsTail |-> ParseTail(toks, c, later, ".", "Field", "FieldsTail"),
        Arg |-> rArg,
        ArgsTail |-> ParseTail(toks, c, later, ",", "Arg", "ArgsTail"),
        Simple |-> rSimple, Term |-> rTerm,
        TermTail |-> ParseTail(toks, c, later, "OR", "Term", "TermTail"),
        FactorLoop |-> rFactors, Sequence |-> rSequence,
        SequenceTail |-> ParseTail(toks, c, later, "AND", "Sequence", "SequenceTail"),
        Expression |-> rExpression, ExpressionLoop |-> rExpressions,
        Filter |-> ParseFilter(toks, c, rExpressions)]

\* The rows of the cursors c .. Len(toks) - 1, the last cursor being the one
\* before the EOF token.
RECURSIVE Rows(_, _)
Rows(toks, c) ==
    IF c >= Len(toks) THEN <<>>
    ELSE LET later == Rows(toks, c + 1)
         IN IF Len(later) >= 0 THEN <<Row(toks, c, later)>> \o later ELSE <<>>

\* DefaultParser.ParseString: the tokens are read first, then the root
\* struct is parsed from the start, and what follows it must be the end of
\* the input.  With an error comes the tree built so far, of which the model
\* keeps that it is a Filter, and not its content.
ParseString(s) ==
    LET root(toks, r) ==
            IF r.st = "ok" /\ Peek(toks, r.cur).type = "EOF"
            THEN [ast |-> r.v, err |-> Nil]
            ELSE [ast |-> New("Filter", toks, 0),
                  err |-> [kind |-> "ParseError", pos |-> Peek(toks, r.cur).pos]]
        parse(lx) ==
            IF lx.err # Nil THEN [ast |-> Nil, err |-> lx.err]
            ELSE root(lx.toks, Rows(lx.toks, 0)[1].Filter)
    IN parse(Lex(s))

\* func Parse(expression string) (*Filter, error)
Parse(s) == ParseString(s)

-----------------------------------------------------------------------------
(* Visitor engine: visitor.go.  A node is known to a hook by its pointer;  *)
(* the model names a node by its path from the Filter.  A traversal carries *)
(* the calls made so far and returns them with the error it ends with: the *)
(* err of an Accept is this pair, err.err the error and err.trace the      *)
(* calls.                                                                  *)

Hooks == {"VisitSequence", "VisitFactor", "VisitTerm", "VisitRestriction",
          "VisitFunction", "VisitMember"}

Step(f, i) == [f |-> f, i |-> i]

\* A base method that returns an error instead of nil.
VisitorVisitTermFailing(node) == [kind |-> "VisitorError", hook |-> "VisitTerm", call |-> 0]

\* type Visitor struct{}: the six methods of the base Visitor.
VisitorVisitSequence(node) == Nil
VisitorVisitFactor(node) == Nil
VisitorVisitTerm(node) == Nil
VisitorVisitRestriction(node) == Nil
VisitorVisitFunction(node) == Nil
VisitorVisitMember(node) == Nil

BaseVisitor(h, node) ==
    CASE h = "VisitSequence" -> VisitorVisitSequence(node)
      [] h = "VisitFactor" -> VisitorVisitFactor(node)
      [] h = "VisitTerm" -> VisitorVisitTerm(node)
      [] h = "VisitRestriction" -> VisitorVisitRestriction(node)
      [] h = "VisitFunction" -> VisitorVisitFunction(node)
      [] h = "VisitMember" -> VisitorVisitMember(node)

\* The error a caller's own hook returns on the n-th call the visitor
\* receives; each call's error is a value of its own.
VisitorError(h, n) == [kind |-> "VisitorError", hook |-> h, call |-> n]

\* A caller's visitor embeds Visitor and overrides the hooks of v.overrides;
\* an overridden hook fails from the v.failFrom-th call on.
MethodSet(v, h, node, n) ==
    IF h \in v.overrides
    THEN IF n >= v.failFrom THEN VisitorError(h, n) ELSE Nil
    ELSE BaseVisitor(h, node)

\* visitor.VisitX(ast): the call is recorded with what it returned.
Invoke(v, h, node, path, tr) ==
    LET ret == MethodSet(v, h, node, Len(tr) + 1)
    IN [err |-> ret, trace |-> Append(tr, [hook |-> h, path |-> path, ret |-> ret])]

Return(e, tr) == [err |-> e, trace |-> tr]

RECURSIVE FilterAcceptFrom(_, _, _, _, _)
RECURSIVE ExpressionAccept(_, _, _, _)
RECURSIVE ExpressionAcceptFrom(_, _, _, _, _)
RECURSIVE SequenceAccept(_, _, _, _)
RECURSIVE SequenceAcceptFrom(_, _, _, _, _)
RECURSIVE FactorAccept(_, _, _, _)
RECURSIVE FactorAcceptFrom(_, _, _, _, _)
RECURSIVE TermAccept(_, _, _, _)
RECURSIVE SimpleAccept(_, _, _, _)
RECURSIVE RestrictionAccept(_, _, _, _)
RECURSIVE ComparableAccept(_, _, _, _)
RECURSIVE CompositeAccept(_, _, _, _)

\* An Arg.Accept that traverses the Comparable the Arg holds.
ArgAcceptDeep(node, path, v, tr) ==
    IF node # Nil /\ node.Comparable # Nil
    THEN ComparableAccept(node.Comparable, Append(path, Step("Comparable", 0)), v, tr)
    ELSE Return(Nil, tr)

\* func (ast *Arg) Accept(visitor FilterVisitor) error
ArgAccept(node, path, v, tr) == Return(Nil, tr)

\* func (ast *Function) Accept(visitor FilterVisitor) error
FunctionAccept(node, path, v, tr) == Return(Nil, tr)

\* func (ast *Member) Accept(visitor FilterVisitor) error
MemberAccept(node, path, v, tr) == Return(Nil, tr)

\* Composite.Accept is called by Simple.Accept and defined in none of the
\* source files: a Composite is opaque, its Expression is not traversed.
CompositeAccept(node, path, v, tr) == Return(Nil, tr)

\* func (ast *Comparable) Accept(visitor FilterVisitor) error
ComparableAccept(node, path, v, tr) ==
    IF node.Function # Nil
    THEN LET p == Append(path, Step("Function", 0))
             after(err) == IF err.err # Nil THEN err
                           ELSE Invoke(v, "VisitFunction", node.Function, p, err.trace)
         IN after(FunctionAccept(node.Function, p, v, tr))
    ELSE IF node.Member # Nil
    THEN LET p == Append(path, Step("Member", 0))
             after(err) == IF err.err # Nil THEN err
                           ELSE Invoke(v, "VisitMember", node.Member, p, err.trace)
         IN after(MemberAccept(node.Member, p, v, tr))
    ELSE Return(Nil, tr)

\* func (ast *Restriction) Accept(visitor FilterVisitor) error
RestrictionAccept(node, path, v, tr) ==
    LET afterArg(err) ==
            IF err.err # Nil THEN err
            ELSE Invoke(v, "VisitRestriction", node, path, err.trace)
        afterComparable(err) ==
            IF err.err # Nil THEN err
            ELSE afterArg(ArgAccept(node.Arg, Append(path, Step("Arg", 0)), v, err.trace))
    IN afterComparable(
           ComparableAccept(node.Comparable, Append(path, Step("Comparable", 0)), v, tr))

\* A Simple.Accept that traverses the Expression of its Composite.
SimpleAcceptInto(node, path, v, tr) ==
    IF node.Restriction # Nil
    THEN RestrictionAccept(node.Restriction, Append(path, Step("Restriction", 0)), v, tr)
    ELSE IF node.Composite # Nil
    THEN ExpressionAccept(node.Composite.Expression,
                          path \o <<Step("Composite", 0), Step("Expression", 0)>>, v, tr)
    ELSE Return(Nil, tr)

\* func (ast *Simple) Accept(visitor FilterVisitor) error
SimpleAccept(node, path, v, tr) ==
    IF node.Restriction # Nil
    THEN RestrictionAccept(node.Restriction, Append(path, Step("Restriction", 0)), v, tr)
    ELSE IF node.Composite # Nil
    THEN CompositeAccept(node.Composite, Append(path, Step("Composite", 0)), v, tr)
    ELSE Return(Nil, tr)

\* A Term.Accept without the return on its Simple's error.
TermAcceptIgnoring(node, path, v, tr) ==
    LET after(err) == Invoke(v, "VisitTerm", node, path, err.trace)
    IN after(SimpleAccept(node.Simple, Append(path, Step("Simple", 0)), v, tr))

\* func (ast *Term) Accept(visitor FilterVisitor) error
TermAccept(node, path, v, tr) ==
    LET after(err) == IF err.err # Nil THEN err
                      ELSE Invoke(v, "VisitTerm", node, path, err.trace)
    IN after(SimpleAccept(node.Simple, Append(path, Step("Simple", 0)), v, tr))

\* for _, t := range ast.Term, from the i-th on
FactorAcceptFrom(node, i, path, v, tr) ==
    IF i > Len(node.Term) THEN Return(Nil, tr)
    ELSE LET after(err) == IF err.err # Nil THEN err
                           ELSE FactorAcceptFrom(node, i + 1, path, v, err.trace)
         IN after(TermAccept(node.Term[i], Append(path, Step("Term", i)), v, tr))

\* A Factor.Accept whose range starts at the second Term.
FactorAcceptSkippingFirst(node, path, v, tr) ==
    LET after(err) == IF err.err # Nil THEN err
                      ELSE Invoke(v, "VisitFactor", node, path, err.trace)
    IN after(FactorAcceptFrom(node, 2, path, v, tr))

\* func (ast *Factor) Accept(visitor FilterVisitor) error
FactorAccept(node, path, v, tr) ==
    LET after(err) == IF err.err # Nil THEN err
                      ELSE Invoke(v, "VisitFactor", node, path, err.trace)
    IN after(FactorAcceptFrom(node, 1, path, v, tr))

\* for _, f := range ast.Factor, from the i-th on
SequenceAcceptFrom(node, i, path, v, tr) ==
    IF i > Len(node.Factor) THEN Return(Nil, tr)
    ELSE LET after(err) == IF err.err # Nil THEN err
                           ELSE SequenceAcceptFrom(node, i + 1, path, v, err.trace)
         IN after(FactorAccept(node.Factor[i], Append(path, Step("Factor", i)), v, tr))

\* A Sequence.Accept that calls VisitSequence before it traverses the Factors.
SequenceAcceptPreOrder(node, path, v, tr) ==
    LET after(err) == IF err.err # Nil THEN err
                      ELSE SequenceAcceptFrom(node, 1, path, v, err.trace)
    IN after(Invoke(v, "VisitSequence", node, path, tr))

\* func (ast *Sequence) Accept(visitor FilterVisitor) error
SequenceAccept(node, path, v, tr) ==
    LET after(err) == IF err.err # Nil THEN err
                      ELSE Invoke(v, "VisitSequence", node, path, err.trace)
    IN after(SequenceAcceptFrom(node, 1, path, v, tr))

\* for _, s := range ast.Sequence, from the i-th on
ExpressionAcceptFrom(node, i, path, v, tr) ==
    IF i > Len(node.Sequence) THEN Return(Nil, tr)
    ELSE LET after(err) == IF err.err # Nil THEN err
                           ELSE ExpressionAcceptFrom(node, i + 1, path, v, err.trace)
         IN after(SequenceAccept(node.Sequence[i], Append(path, Step("Sequence", i)),
                                 v, tr))

\* func (ast *Expression) Accept(visitor FilterVisitor) error
ExpressionAccept(node, path, v, tr) == ExpressionAcceptFrom(node, 1, path, v, tr)

\* for _, e := range ast.Expression, from the i-th on
FilterAcceptFrom(node, i, path, v, tr) ==
    IF i > Len(node.Expression) THEN Return(Nil, tr)
    ELSE LET after(err) == IF err.err # Nil THEN err
                           ELSE FilterAcceptFrom(node, i + 1, path, v, err.trace)
         IN after(ExpressionAccept(node.Expression[i],
                                   Append(path, Step("Expression", i)), v, tr))

\* func (ast *Filter) Accept(visitor FilterVisitor) error
FilterAccept(node, v) == FilterAcceptFrom(node, 1, <<>>, v, <<>>)

\* func Visit(ast *Filter, visitor FilterVisitor) error
Visit(node, v) == FilterAccept(node, v)

-----------------------------------------------------------------------------
(* The expressions a caller passes to Parse, the Filters a caller builds   *)
(* by hand, and the visitors a caller passes to Visit.                     *)

MaxWords == 3
MaxChain == 6
MaxTerms == 3
MaxFailFrom == 3

RECURSIVE Flatten(_)
Flatten(ws) == IF ws = <<>> THEN <<>> ELSE Head(ws) \o Flatten(Tail(ws))

Vocabulary ==
    {<<"a">>,
     <<"b">>,
     <<"A","N","D">>,
     <<"O","R">>,
     <<"N","O","T">>,
     <<" ">>,
     <<".">>,
     <<"(">>,
     <<")">>,
     <<",">>,
     <<"-">>,
     <<"=">>,
     <<"<","=">>}

\* Every expression of at most MaxWords words of the vocabulary.
WordInputs ==
    {Flatten(ws) : ws \in UNION {[1..n -> Vocabulary] : n \in 0..MaxWords}}

ChainNames == <<"a", "b", "c", "d", "e", "f", "g", "h">>

\* a.b.c ... of n names.
RECURSIVE Chain(_)
Chain(n) == IF n = 1 THEN <<ChainNames[1]>> ELSE Chain(n - 1) \o <<".", ChainNames[n]>>

ChainLeads == {<<>>, <<"-">>, <<"x", " ">>, <<"x", "=">>}
ChainTails == {<<>>, <<"(", ")">>, <<"(", "x", ")">>, <<"=", "x">>, <<" ", "x">>,
               <<" ", "(", ")">>}

\* A dotted chain of 1..MaxChain names, alone or in a context.
ChainInputs ==
    {l \o Chain(n) \o t : l \in ChainLeads, n \in 1..MaxChain, t \in ChainTails}

\* The expressions of the package's tests and comments, and variations.
ExampleInputs ==
    {<<"a"," ","b"," ","A","N","D"," ","c"," ","A","N","D"," ","d">>,
     <<"N","O","T"," ","(","a"," ","O","R"," ","b",")">>,
     <<"-","3","0">>,
     <<"-","f","i","l","e",":","\"",".","j","a","v","a","\"">>,
     <<"m","a","t","h",".","m","a","x","(","5",","," ","7",")">>,
     <<"f","i","e","l","d",".","t","y","p","e","_","m","a","p",".","1",".","v","a","l">>,
     <<"f","i","e","l","d",".","a","n","d",".","v","a","l">>,
     <<"b","o","o","k",".","t","i","t","l","e"," ","="," ","\"","*","a","n","d"," ","t","h","e","*","\"">>,
     <<"N","e","w"," ","Y","o","r","k"," ","G","i","a","n","t","s"," ","O","R"," ","Y","a","n","k","e","e","s">>,
     <<"a"," ","<"," ","1","0"," ","O","R"," ","a"," ",">","="," ","1","0","0">>,
     <<"p","r","o","d">>,
     <<"m","a","p",":","k","e","y">>,
     <<"m","s","g"," ","!","="," ","'","h","e","l","l","o","'">>,
     <<"1"," ",">"," ","0">>,
     <<"2",".","5"," ",">","="," ","2",".","4">>,
     <<"y","e","s","t","e","r","d","a","y"," ","<"," ","r","e","q","u","e","s","t",".","t","i","m","e">>,
     <<"e","x","p","e","r","i","m","e","n","t",".","r","o","l","l","o","u","t"," ","<","="," ","c","o","h","o","r","t","(","r","e","q","u","e","s","t",".","u","s","e","r",")">>,
     <<"p","a","c","k","a","g","e","=","c","o","m",".","g","o","o","g","l","e">>,
     <<"f","u","n","c",".","f","u","n","c","(","a",",","b",")">>,
     <<"(","m","s","g",".","e","n","d","s","W","i","t","h","(","'","w","o","r","l","d","'",")"," ","A","N","D"," ","r","e","t","r","i","e","s"," ","<"," ","1","0",")">>,
     <<"a"," ","A","N","D">>,
     <<"a"," ","A","N","D"," ","b">>,
     <<"a"," ","O","R"," ","b"," ","A","N","D"," ","c">>,
     <<"a"," ","a","n","d"," ","b">>,
     <<"p","r","o","d"," ","<","="," ","x">>,
     <<"f","(","a",".","b",","," ","(","c",")",")">>,
     <<"\t","\n","\r"," ">>,
     <<"N","O","T"," ","(","a"," ","O","R"," ","-","b",")">>}

Inputs == WordInputs \cup ChainInputs \cup ExampleInputs

\* Struct literals, as a caller writes them: the zero value with the named
\* fields set.
MemberLit(text) ==
    [ZeroValue("Member") EXCEPT !.Value = [ZeroValue("Value") EXCEPT !.Text = text]]

FunctionLit(name, args) ==
    [ZeroValue("Function") EXCEPT
        !.Name = <<[ZeroValue("Name") EXCEPT !.Text = name]>>, !.Args = args]

ComparableOfMember(m) == [ZeroValue("Comparable") EXCEPT !.Member = m]
ComparableOfFunction(f) == [ZeroValue("Comparable") EXCEPT !.Function = f]
ArgOfComparable(c) == [ZeroValue("Arg") EXCEPT !.Comparable = c]

TermOfRestriction(neg, r) ==
    [ZeroValue("Term") EXCEPT
        !.Negate = neg, !.Simple = [ZeroValue("Simple") EXCEPT !.Restriction = r]]

\* a
GlobalTerm ==
    TermOfRestriction(FALSE,
        [ZeroValue("Restriction") EXCEPT !.Comparable = ComparableOfMember(MemberLit("a"))])

\* -f(b) = g()
FunctionTerm ==
    TermOfRestriction(TRUE,
        [ZeroValue("Restriction") EXCEPT
            !.Comparable = ComparableOfFunction(
                FunctionLit("f", <<ArgOfComparable(ComparableOfMember(MemberLit("b")))>>)),
            !.Comparator = CompEquals,
            !.Arg = ArgOfComparable(ComparableOfFunction(FunctionLit("g", <<>>)))])

\* (a)
CompositeTerm ==
    [ZeroValue("Term") EXCEPT
        !.Simple = [ZeroValue("Simple") EXCEPT
            !.Composite = [ZeroValue("Composite") EXCEPT
                !.Expression = [ZeroValue("Expression") EXCEPT
                    !.Sequence = <<[ZeroValue("Sequence") EXCEPT
                        !.Factor = <<[ZeroValue("Factor") EXCEPT
                            !.Term = <<GlobalTerm>>]>>]>>]]]]

\* Term{}
ZeroTerm == ZeroValue("Term")

TermLits == {GlobalTerm, FunctionTerm, CompositeTerm, ZeroTerm}

\* A hand-built Filter is given by its Terms in order and, between each two
\* neighbours, the level at which they part: 1 the same Factor, 2 the same
\* Sequence, 3 the same Expression, 4 different Expressions.
LevelField(lvl) ==
    CASE lvl = 2 -> "Term" [] lvl = 3 -> "Factor" [] lvl = 4 -> "Sequence"
      [] lvl = 5 -> "Expression"

LevelStruct(lvl) ==
    CASE lvl = 2 -> "Factor" [] lvl = 3 -> "Sequence" [] lvl = 4 -> "Expression"
      [] lvl = 5 -> "Filter"

\* The nodes of level lvl (1 Term, 2 Factor, 3 Sequence, 4 Expression) that
\* hold terms[lo..hi].
RECURSIVE NodesOf(_, _, _, _, _)
NodesOf(lvl, terms, seps, lo, hi) ==
    IF lvl = 1 THEN SubSeq(terms, lo, hi)
    ELSE LET breaks == {i \in lo..(hi - 1) : seps[i] >= lvl}
             b == IF breaks = {} THEN hi
                  ELSE CHOOSE i \in breaks : \A j \in breaks : i <= j
             first == [ZeroValue(LevelStruct(lvl)) EXCEPT
                          ![LevelField(lvl)] = NodesOf(lvl - 1, terms, seps, lo, b)]
         IN IF b = hi THEN <<first>>
            ELSE <<first>> \o NodesOf(lvl, terms, seps, b + 1, hi)

FilterLit(terms, seps) ==
    [ZeroValue("Filter") EXCEPT
        !.Expression = IF terms = <<>> THEN <<>>
                       ELSE NodesOf(4, terms, seps, 1, Len(terms))]

FilterLits ==
    {FilterLit(ts, ss) :
        <<ts, ss>> \in UNION {[1..n -> TermLits] \X [1..(n - 1) -> 1..4] :
                                n \in 1..MaxTerms}}
    \cup {FilterLit(<<>>, <<>>)}

OverrideSets == {{}} \cup {{h} : h \in Hooks} \cup {Hooks}

Visitors == [overrides : OverrideSets, failFrom : 1..MaxFailFrom]

-----------------------------------------------------------------------------
(* The caller: it receives an expression and parses it, or builds a Filter *)
(* by hand, and visits the Filter it holds.  origin tells where the Filter *)
(* the caller holds came from.                                             *)

Init ==
    /\ expression = <<>>
    /\ pc = "start"
    /\ origin = "none"
    /\ ast = Nil
    /\ perr = Nil
    /\ visitor = Nil
    /\ trace = <<>>
    /\ verr = Nil

\* ast, err := filterexpression.Parse(req.filter)
CallParse ==
    /\ pc = "start"
    /\ \E e \in Inputs :
          LET returns(r) == ast' = r.ast /\ perr' = r.err
          IN expression' = e /\ returns(Parse(e))
    /\ pc' = "parsed"
    /\ origin' = "Parse"
    /\ UNCHANGED <<visitor, trace, verr>>

\* want: &filterexpression.Filter{ ... }
BuildFilter ==
    /\ pc = "start"
    /\ \E f \in FilterLits : ast' = f
    /\ pc' = "built"
    /\ origin' = "literal"
    /\ UNCHANGED <<expression, perr, visitor, trace, verr>>

\* err := filterexpression.Visit(ast, visitor)
CallVisit ==
    /\ \/ pc = "parsed" /\ perr = Nil
       \/ pc = "built"
    /\ \E v \in Visitors :
          LET returns(r) == trace' = r.trace /\ verr' = r.err
          IN visitor' = v /\ returns(Visit(ast, v))
    /\ pc' = "visited"
    /\ UNCHANGED <<expression, origin, ast, perr>>

Next == CallParse \/ BuildFilter \/ CallVisit

Spec == Init /\ [][Next]_vars

-----------------------------------------------------------------------------
(* Properties of Visit.                                                    *)

Child(node, step) == IF step.i = 0 THEN node[step.f] ELSE node[step.f][step.i]

\* The node of a Filter that a path names.
RECURSIVE NodeAt(_, _)
NodeAt(node, path) ==
    IF path = <<>> THEN node ELSE NodeAt(Child(node, Head(path)), Tail(path))

IsPrefix(p, q) == Len(p) <= Len(q) /\ SubSeq(q, 1, Len(p)) = p
IsProperPrefix(p, q) == Len(p) < Len(q) /\ SubSeq(q, 1, Len(p)) = p

Calls == 1..Len(trace)

\* The call of hook h on the node at path p is among the calls before the
\* j-th.
CalledBefore(h, p, j) ==
    \E i \in 1..(j - 1) : trace[i].hook = h /\ trace[i].path = p

\* The calls of hook h on the nodes at p.f[1], p.f[2], ..., p.f[n] are all
\* among the calls before the j-th, in this order.
ChildrenCalledBefore(h, p, f, n, j) ==
    \A k \in 1..n :
        \E i \in 1..(j - 1) :
            /\ trace[i].hook = h
            /\ trace[i].path = Append(p, Step(f, k))
            /\ \A k2 \in 1..(k - 1) :
                  \E i2 \in 1..(i - 1) :
                      trace[i2].hook = h /\ trace[i2].path = Append(p, Step(f, k2))

\* C1: once a hook has returned a non-nil error no further hook is called,
\* and Visit returns that very error: a call that returned an error is the
\* last call of the traversal and its error is what Visit returned.
VisitShortCircuits ==
    pc = "visited" =>
        \A j \in Calls :
            trace[j].ret # Nil => j = Len(trace) /\ verr = trace[j].ret

\* A traversal that a hook ended after other calls, in the first of
\* several Expressions.
VisitShortCircuitsWitness ==
    /\ pc = "visited"
    /\ Len(trace) >= 3
    /\ trace[Len(trace)].ret # Nil
    /\ verr = trace[Len(trace)].ret
    /\ Len(ast.Expression) >= 2
    /\ trace[Len(trace)].path[1] = Step("Expression", 1)

\* C2: the traversal is post-order and in child order: VisitSequence is
\* called after the VisitFactor calls of all its Factors in list order,
\* VisitFactor after the VisitTerm calls of all its Terms in list order,
\* VisitTerm after the VisitRestriction of its Simple, VisitRestriction after
\* the VisitFunction or VisitMember of its Comparable; and of any two calls
\* the earlier one is not on an ancestor of the later one's node, and is on
\* the earlier branch where their paths part.
TraversalIsPostOrder ==
    pc = "visited" =>
        /\ \A j \in Calls :
              LET p == trace[j].path
                  n == NodeAt(ast, p)
                  h == trace[j].hook
              IN /\ h = "VisitSequence" =>
                        ChildrenCalledBefore("VisitFactor", p, "Factor", Len(n.Factor), j)
                 /\ h = "VisitFactor" =>
                        ChildrenCalledBefore("VisitTerm", p, "Term", Len(n.Term), j)
                 /\ (h = "VisitTerm" /\ n.Simple.Restriction # Nil) =>
                        CalledBefore("VisitRestriction",
                            p \o <<Step("Simple", 0), Step("Restriction", 0)>>, j)
                 /\ (h = "VisitRestriction" /\ n.Comparable.Function # Nil) =>
                        CalledBefore("VisitFunction",
                            p \o <<Step("Comparable", 0), Step("Function", 0)>>, j)
                 /\ (h = "VisitRestriction" /\ n.Comparable.Function = Nil
                        /\ n.Comparable.Member # Nil) =>
                        CalledBefore("VisitMember",
                            p \o <<Step("Comparable", 0), Step("Member", 0)>>, j)
        /\ \A i, j \in Calls :
              i < j =>
                  LET p == trace[i].path
                      q == trace[j].path
                  IN /\ ~IsPrefix(p, q)
                     /\ \A m \in 1..Len(p) :
                           (m <= Len(q) /\ SubSeq(p, 1, m - 1) = SubSeq(q, 1, m - 1)
                               /\ p[m] # q[m])
                           => (p[m].f = q[m].f /\ p[m].i < q[m].i)

\* An error-free traversal of a Sequence of several Factors, one of them of
\* several Terms, with a Function among the Comparables.
TraversalIsPostOrderWitness ==
    /\ pc = "visited"
    /\ verr = Nil
    /\ \E j \in Calls :
          /\ trace[j].hook = "VisitSequence"
          /\ Len(NodeAt(ast, trace[j].path).Factor) >= 2
          /\ \E k \in 1..Len(NodeAt(ast, trace[j].path).Factor) :
                Len(NodeAt(ast, trace[j].path).Factor[k].Term) >= 2
    /\ \E j \in Calls : trace[j].hook = "VisitFunction"

\* C3: the traversal is shallow at Restriction and Comparable: no hook is
\* called on a node inside an Arg, inside a Function's Args or Name, or
\* inside a Member's Fields; VisitFunction and VisitMember are called on the
\* Comparable of a Restriction only, and once for a Restriction.
TraversalIsShallow ==
    pc = "visited" =>
        /\ \A j \in Calls :
              \A m \in 1..Len(trace[j].path) :
                  trace[j].path[m].f \notin {"Arg", "Args", "Fields", "Name", "Value"}
        /\ \A j \in Calls :
              trace[j].hook \in {"VisitFunction", "VisitMember"} =>
                  LET p == trace[j].path
                  IN /\ Len(p) >= 3
                     /\ p[Len(p) - 1] = Step("Comparable", 0)
                     /\ p[Len(p) - 2] = Step("Restriction", 0)
                     /\ \A i \in Calls : trace[i].path = p => i = j
        /\ \A j \in Calls :
              trace[j].hook = "VisitRestriction" =>
                  LET r == NodeAt(ast, trace[j].path)
                      inside == {i \in Calls :
                                    /\ trace[i].hook \in {"VisitFunction", "VisitMember"}
                                    /\ IsPrefix(trace[j].path, trace[i].path)}
                  IN Cardinality(inside) =
                        IF r.Comparable.Function # Nil \/ r.Comparable.Member # Nil
                        THEN 1 ELSE 0

\* An error-free traversal of a Restriction whose Comparable is a Function
\* with Args and whose Arg holds a Comparable.
TraversalIsShallowWitness ==
    /\ pc = "visited"
    /\ verr = Nil
    /\ \E j \in Calls :
          /\ trace[j].hook = "VisitRestriction"
          /\ LET r == NodeAt(ast, trace[j].path)
             IN /\ r.Comparable.Function # Nil
                /\ r.Comparable.Function.Args # <<>>
                /\ r.Arg # Nil
                /\ r.Arg.Comparable # Nil

\* C4: a Composite is opaque: no hook is called on a node inside a
\* Composite, and the VisitTerm of a Term whose Simple holds a Composite is
\* the only call on that Term or below it.
CompositeIsOpaque ==
    pc = "visited" =>
        \A j \in Calls :
            /\ \A m \in 1..Len(trace[j].path) : trace[j].path[m].f # "Composite"
            /\ (trace[j].hook = "VisitTerm"
                    /\ NodeAt(ast, trace[j].path).Simple.Restriction = Nil) =>
                  \A i \in Calls : IsPrefix(trace[j].path, trace[i].path) => i = j

\* An error-free traversal of a parsed Filter with a Term whose Simple holds
\* a Composite, the Composite holding Terms of its own.
CompositeIsOpaqueWitness ==
    /\ pc = "visited"
    /\ verr = Nil
    /\ origin = "Parse"
    /\ \E j \in Calls :
          /\ trace[j].hook = "VisitTerm"
          /\ LET s == NodeAt(ast, trace[j].path).Simple
             IN /\ s.Composite # Nil
                /\ s.Composite.Expression.Sequence # <<>>
                /\ s.Composite.Expression.Sequence[1].Factor # <<>>

\* C5: the six methods of the base Visitor return nil: Visit with a visitor
\* that overrides none of them returns nil, and with a visitor that
\* overrides some of them every error comes from a hook it overrides.
BaseVisitorIsNoOp ==
    pc = "visited" =>
        /\ \A j \in Calls : trace[j].ret # Nil => trace[j].hook \in visitor.overrides
        /\ verr # Nil =>
              \E j \in Calls : trace[j].hook \in visitor.overrides /\ verr = trace[j].ret
        /\ visitor.overrides = {} => verr = Nil

\* A visitor that overrides no hook, on a parsed Filter on which each of
\* the six hooks is called.
BaseVisitorIsNoOpWitness ==
    /\ pc = "visited"
    /\ origin = "Parse"
    /\ visitor.overrides = {}
    /\ verr = Nil
    /\ \A h \in Hooks : \E j \in Calls : trace[j].hook = h

-----------------------------------------------------------------------------
(* Properties of Parse.                                                    *)

\* The Comparable of the first Restriction of a parsed Filter.
FirstComparable ==
    ast.Expression[1].Sequence[1].Factor[1].Term[1].Simple.Restriction.Comparable

IsFunctionOf(c, n) ==
    /\ c.Function # Nil
    /\ c.Member = Nil
    /\ Len(c.Function.Name) = n
    /\ \A k \in 1..n : c.Function.Name[k].Text = ChainNames[k]

IsMemberOf(c, n) ==
    /\ c.Member # Nil
    /\ c.Function = Nil
    /\ c.Member.Value.Text = ChainNames[1]
    /\ Len(c.Member.Fields) = n - 1
    /\ \A k \in 1..(n - 1) :
          /\ c.Member.Fields[k].Value # Nil
          /\ c.Member.Fields[k].Value.Text = ChainNames[k + 1]

\* The chains that open the expression or follow a "-" with no space between,
\* and what follows them: an argument list, or something else.
DirectLeads == {<<>>, <<"-">>}
CallTails == {<<"(", ")">>, <<"(", "x", ")">>, <<" ", "(", ")">>}

Tokens == IF origin = "Parse" THEN Lex(expression).toks ELSE <<>>

\* C7, as stated: the words AND, OR and NOT are Keyword tokens and no other
\* token is; every other run of word characters is a Text token; and
\* "field.and.val" parses to a Member whose Field "and" is a Value text.
KeywordsAreKeywordTokens ==
    /\ \A k \in 1..Len(Tokens) :
          /\ Tokens[k].type = "Keyword" <=> Tokens[k].value \in KeywordLits
          /\ Tokens[k].type = "Text" => Tokens[k].value \notin KeywordLits
    /\ (origin = "Parse"
           /\ expression = <<"f","i","e","l","d",".","a","n","d",".","v","a","l">>) =>
          /\ perr = Nil
          /\ FirstComparable.Member # Nil
          /\ Len(FirstComparable.Member.Fields) = 2
          /\ FirstComparable.Member.Fields[1].Value # Nil
          /\ FirstComparable.Member.Fields[1].Value.Text = "and"

\* C8, as stated: Parse("a AND") returns a ParseError at a position after
\* "AND" and a non-nil tree.
DanglingAndIsParseError ==
    (origin = "Parse" /\ expression = <<"a", " ", "A", "N", "D">>) =>
        /\ perr # Nil
        /\ perr.kind = "ParseError"
        /\ perr.pos >= 6
        /\ ast # Nil

\* C9: Parse of the empty expression, or of whitespace only, returns a
\* Filter of no Expression and no error, and Visit of that Filter calls no
\* hook and returns nil.
EmptyInputIsEmptyFilter ==
    (origin = "Parse" /\ \A k \in 1..Len(expression) : expression[k] \in WhitespaceChars) =>
        /\ perr = Nil
        /\ ast # Nil
        /\ ast.Expression = <<>>
        /\ pc = "visited" => trace = <<>> /\ verr = Nil

\* The empty expression parsed, and its Filter visited by a visitor whose
\* six hooks all fail.
EmptyInputIsEmptyFilterWitness ==
    /\ origin = "Parse"
    /\ expression = <<>>
    /\ pc = "visited"
    /\ visitor.overrides = Hooks
    /\ visitor.failFrom = 1
    /\ trace = <<>>
    /\ verr = Nil

\* The Restrictions of an Expression, those inside its Composites and the
\* Composites of its arguments included.
RECURSIVE RestrictionsOfExpression(_)
RECURSIVE RestrictionsOfArg(_)
RestrictionsOfComparable(c) ==
    IF c.Function = Nil THEN {}
    ELSE UNION {RestrictionsOfArg(c.Function.Args[k]) : k \in 1..Len(c.Function.Args)}

RestrictionsOfArg(a) ==
    IF a = Nil THEN {}
    ELSE IF a.Comparable # Nil THEN RestrictionsOfComparable(a.Comparable)
    ELSE IF a.Composite # Nil THEN RestrictionsOfExpression(a.Composite.Expression)
    ELSE {}

RestrictionsOfSimple(s) ==
    IF s.Restriction # Nil
    THEN {s.Restriction} \cup RestrictionsOfComparable(s.Restriction.Comparable)
             \cup RestrictionsOfArg(s.Restriction.Arg)
    ELSE IF s.Composite # Nil THEN RestrictionsOfExpression(s.Composite.Expression)
    ELSE {}

RestrictionsOfExpression(e) ==
    UNION {RestrictionsOfSimple(e.Sequence[q].Factor[k].Term[t].Simple) :
              <<q, k, t>> \in {x \in (1..Len(e.Sequence)) \X (1..8) \X (1..8) :
                                 /\ x[2] <= Len(e.Sequence[x[1]].Factor)
                                 /\ x[3] <= Len(e.Sequence[x[1]].Factor[x[2]].Term)}}

Restrictions ==
    IF origin = "Parse" /\ perr = Nil
    THEN UNION {RestrictionsOfExpression(ast.Expression[e]) : e \in 1..Len(ast.Expression)}
    ELSE {}

\* C10, as stated: in every Restriction of a successful parse Comparator and
\* Arg are present together or absent together: one with an Arg has the
\* Comparator of one of the seven comparators, and one without an Arg has a
\* Comparator that is none of the seven, "<=" included.
ComparatorAndArgTogether ==
    \A r \in Restrictions :
        r.Arg # Nil <=> (\E s \in DOMAIN comparatorMap : r.Comparator = comparatorMap[s])

\* The Factors of the Sequences of the Expressions of a parsed Filter, as
\* triples of indices.
ParsedFactors ==
    IF origin = "Parse" /\ perr = Nil
    THEN UNION {UNION {{<<e, q, k>> : k \in 1..Len(ast.Expression[e].Sequence[q].Factor)} :
                          q \in 1..Len(ast.Expression[e].Sequence)} :
                   e \in 1..Len(ast.Expression)}
    ELSE {}

\* The Factor is the one word w: a Member of that Value text and no Fields.
IsWord(factor, w) ==
    /\ Len(factor.Term) = 1
    /\ factor.Term[1].Simple.Restriction # Nil
    /\ factor.Term[1].Simple.Restriction.Arg = Nil
    /\ factor.Term[1].Simple.Restriction.Comparable.Member # Nil
    /\ factor.Term[1].Simple.Restriction.Comparable.Member.Value.Text = w
    /\ factor.Term[1].Simple.Restriction.Comparable.Member.Fields = <<>>

\* C11, as stated: "a b AND c AND d" parses to one Expression of three
\* Sequences, the first of the two Factors a and b and the others of one
\* Factor each, c and d; and in every parsed Filter no Factor between two
\* Factors of a Sequence is the word AND.
ExpressionSplitsOnAnd ==
    /\ (origin = "Parse"
           /\ expression = <<"a"," ","b"," ","A","N","D"," ","c"," ","A","N","D"," ","d">>) =>
          /\ perr = Nil
          /\ Len(ast.Expression) = 1
          /\ Len(ast.Expression[1].Sequence) = 3
          /\ Len(ast.Expression[1].Sequence[1].Factor) = 2
          /\ IsWord(ast.Expression[1].Sequence[1].Factor[1], "a")
          /\ IsWord(ast.Expression[1].Sequence[1].Factor[2], "b")
          /\ Len(ast.Expression[1].Sequence[2].Factor) = 1
          /\ IsWord(ast.Expression[1].Sequence[2].Factor[1], "c")
          /\ Len(ast.Expression[1].Sequence[3].Factor) = 1
          /\ IsWord(ast.Expression[1].Sequence[3].Factor[1], "d")
    /\ \A x \in ParsedFactors :
          (1 < x[3] /\ x[3] < Len(ast.Expression[x[1]].Sequence[x[2]].Factor)) =>
              ~IsWord(ast.Expression[x[1]].Sequence[x[2]].Factor[x[3]], "AND")

\* The Terms of an Expression, those inside its Composites and the
\* Composites of its arguments included.
RECURSIVE TermsOfExpression(_)
RECURSIVE TermsOfArg(_)
TermsOfComparable(c) ==
    IF c.Function = Nil THEN {}
    ELSE UNION {TermsOfArg(c.Function.Args[k]) : k \in 1..Len(c.Function.Args)}

TermsOfArg(a) ==
    IF a = Nil THEN {}
    ELSE IF a.Comparable # Nil THEN TermsOfComparable(a.Comparable)
    ELSE IF a.Composite # Nil THEN TermsOfExpression(a.Composite.Expression)
    ELSE {}

TermsOfSimple(s) ==
    IF s.Restriction # Nil
    THEN TermsOfComparable(s.Restriction.Comparable) \cup TermsOfArg(s.Restriction.Arg)
    ELSE IF s.Composite # Nil THEN TermsOfExpression(s.Composite.Expression)
    ELSE {}

TermsOfFactor(f) ==
    UNION {{f.Term[t]} \cup TermsOfSimple(f.Term[t].Simple) : t \in 1..Len(f.Term)}

TermsOfSequence(q) == UNION {TermsOfFactor(q.Factor[k]) : k \in 1..Len(q.Factor)}

TermsOfExpression(e) ==
    UNION {TermsOfSequence(e.Sequence[q]) : q \in 1..Len(e.Sequence)}

Terms ==
    IF origin = "Parse" /\ perr = Nil
    THEN UNION {TermsOfExpression(ast.Expression[e]) : e \in 1..Len(ast.Expression)}
    ELSE {}

\* The token the source text has at a position.
TokenAt(p) == CHOOSE t \in {Tokens[k] : k \in 1..Len(Tokens)} : t.pos = p

FirstTerm == ast.Expression[1].Sequence[1].Factor[1].Term[1]

\* C12: in every Term of a successful parse Negate is true exactly when the
\* text of the Term, which starts at its Pos, begins with the token NOT or
\* the token "-"; "NOT (a OR b)" is a negated Term whose Simple holds a
\* Composite, and "-30" a negated Term of the Member 30.
NegateIffPrefix ==
    /\ \A t \in Terms : t.Negate <=> TokenAt(t.Pos).value \in {"NOT", "-"}
    /\ (origin = "Parse"
           /\ expression = <<"N","O","T"," ","(","a"," ","O","R"," ","b",")">>) =>
          /\ perr = Nil
          /\ FirstTerm.Negate
          /\ FirstTerm.Simple.Restriction = Nil
          /\ FirstTerm.Simple.Composite # Nil
    /\ (origin = "Parse" /\ expression = <<"-", "3", "0">>) =>
          /\ perr = Nil
          /\ FirstTerm.Negate
          /\ FirstTerm.Simple.Composite = Nil
          /\ FirstTerm.Simple.Restriction # Nil
          /\ FirstTerm.Simple.Restriction.Comparable.Member # Nil
          /\ FirstTerm.Simple.Restriction.Comparable.Member.Value.Text = "30"

\* "-30" parsed: a negated Term of the Member 30.
NegateIffPrefixWitness ==
    /\ origin = "Parse"
    /\ expression = <<"-", "3", "0">>
    /\ perr = Nil
    /\ Cardinality(Terms) = 1
    /\ FirstTerm.Negate
    /\ FirstTerm.Simple.Restriction.Comparable.Member.Value.Text = "30"

\* The number of calls of hook h on the node at path p.
CallCount(h, p) ==
    Cardinality({j \in Calls : trace[j].hook = h /\ trace[j].path = p})

\* Every Sequence, Factor, Term and Restriction that the Expressions of the
\* Filter hold outside a Composite and outside an Arg has received its hook
\* once.
EachNodeCalledOnce ==
    \A e \in 1..Len(ast.Expression) :
      \A q \in 1..Len(ast.Expression[e].Sequence) :
        LET ps == <<Step("Expression", e), Step("Sequence", q)>>
            sequence == ast.Expression[e].Sequence[q]
        IN /\ CallCount("VisitSequence", ps) = 1
           /\ \A k \in 1..Len(sequence.Factor) :
                LET pf == Append(ps, Step("Factor", k))
                IN /\ CallCount("VisitFactor", pf) = 1
                   /\ \A t \in 1..Len(sequence.Factor[k].Term) :
                        LET pt == Append(pf, Step("Term", t))
                        IN /\ CallCount("VisitTerm", pt) = 1
                           /\ sequence.Factor[k].Term[t].Simple.Restriction # Nil =>
                                 CallCount("VisitRestriction",
                                     pt \o <<Step("Simple", 0), Step("Restriction", 0)>>) = 1

AllHooksReturnedNil == verr = Nil /\ \A j \in Calls : trace[j].ret = Nil

\* C13: in a traversal where every hook returns nil, each Sequence, Factor,
\* Term and Restriction reachable from the Filter without passing through a
\* Composite or an Arg receives its hook exactly once, and Visit leaves the
\* Filter as it was.
EachNodeVisitedOnce ==
    /\ [](pc = "visited" /\ AllHooksReturnedNil => EachNodeCalledOnce)
    /\ [][pc' = "visited" => ast' = ast]_vars

\* An error-free traversal of a Filter of several Expressions, with
\* Factors of one and of several Terms, and a Restriction with an Arg.
EachNodeVisitedOnceWitness ==
    /\ pc = "visited"
    /\ AllHooksReturnedNil
    /\ Len(trace) >= 8
    /\ Len(ast.Expression) >= 2
    /\ \E e \in 1..Len(ast.Expression) :
         \E q \in 1..Len(ast.Expression[e].Sequence) :
           \E k \in 1..Len(ast.Expression[e].Sequence[q].Factor) :
             /\ Len(ast.Expression[e].Sequence[q].Factor[k].Term) >= 2
             /\ \E t \in 1..Len(ast.Expression[e].Sequence[q].Factor[k].Term) :
                  LET s == ast.Expression[e].Sequence[q].Factor[k].Term[t].Simple
                  IN s.Restriction # Nil /\ s.Restriction.Arg # Nil

=============================================================================
